---- MODULE Spec2Model ----
(***************************************************************************)
(* InlineKeyValueStringParser (src/src/inlinekeyvaluestringparser.js).     *)
(*                                                                         *)
(* A text is a sequence of one-character strings.  A caller types a text   *)
(* lexeme by lexeme and then calls parser(text), or calls parser with      *)
(* undefined or null.  parser, _getValue and _unescapeText are operators   *)
(* that compute what the JavaScript computes; jsyaml_load is the part of   *)
(* js-yaml 4.x's loader that parser's call load('{' + text + '}') runs     *)
(* for the characters of the lexemes below.                                *)
(***************************************************************************)
EXTENDS Integers, Sequences, FiniteSets, TLC

VARIABLES alphabet, limit, text, typed, pc, argument, result

vars == <<alphabet, limit, text, typed, pc, argument, result>>

(***************************************************************************)
(* Bounds: the number of lexemes a caller types, per specification.        *)
(***************************************************************************)
MaxLexemes == 5
MaxQuoteLexemes == 6
MaxLadderLexemes == 4

(***************************************************************************)
(* Characters.                                                             *)
(***************************************************************************)
SQ == "'"
DQ == "\""
BS == "\\"
LF == "\n"
TAB == "\t"

Digits == <<"0", "1", "2", "3", "4", "5", "6", "7", "8", "9">>

Uppers == <<"A", "B", "C", "D", "E", "F", "G", "H", "I", "J", "K", "L", "M",
            "N", "O", "P", "Q", "R", "S", "T", "U", "V", "W", "X", "Y", "Z">>

Lowers == <<"a", "b", "c", "d", "e", "f", "g", "h", "i", "j", "k", "l", "m",
            "n", "o", "p", "q", "r", "s", "t", "u", "v", "w", "x", "y", "z">>

IsDigit(c) == \E i \in 1..Len(Digits) : Digits[i] = c

DigitValue(c) == (CHOOSE i \in 1..Len(Digits) : Digits[i] = c) - 1

\* String.prototype.trim strips these from both ends
IsWhiteSpace(c) == c \in {" ", TAB, LF}

(***************************************************************************)
(* JavaScript values.  Every record has the same fields, so that any two   *)
(* values can be compared; a field a variant does not use holds its empty  *)
(* value.  A Number num / 10^scale is kept normalised (scale = 0 or num    *)
(* not a multiple of 10), so that equal numbers are equal records; -0 and  *)
(* 0 are one value, as they are for ===.  An Object is its own properties  *)
(* as <<key, value>> pairs in insertion order.                             *)
(***************************************************************************)
StringValue(s) ==
    [tag |-> "String", chars |-> s, num |-> 0, scale |-> 0, bool |-> FALSE,
     ymd |-> <<>>, items |-> <<>>, entries |-> <<>>]

NumberValue(n, k) ==
    [tag |-> "Number", chars |-> <<>>, num |-> n, scale |-> k, bool |-> FALSE,
     ymd |-> <<>>, items |-> <<>>, entries |-> <<>>]

BooleanValue(b) ==
    [tag |-> "Boolean", chars |-> <<>>, num |-> 0, scale |-> 0, bool |-> b,
     ymd |-> <<>>, items |-> <<>>, entries |-> <<>>]

NullValue ==
    [tag |-> "Null", chars |-> <<>>, num |-> 0, scale |-> 0, bool |-> FALSE,
     ymd |-> <<>>, items |-> <<>>, entries |-> <<>>]

DateValue(y, m, d) ==
    [tag |-> "Date", chars |-> <<>>, num |-> 0, scale |-> 0, bool |-> FALSE,
     ymd |-> <<y, m, d>>, items |-> <<>>, entries |-> <<>>]

ArrayValue(xs) ==
    [tag |-> "Array", chars |-> <<>>, num |-> 0, scale |-> 0, bool |-> FALSE,
     ymd |-> <<>>, items |-> xs, entries |-> <<>>]

ObjectValue(es) ==
    [tag |-> "Object", chars |-> <<>>, num |-> 0, scale |-> 0, bool |-> FALSE,
     ymd |-> <<>>, items |-> <<>>, entries |-> es]

(***************************************************************************)
(* String methods the source calls.  Indices are JavaScript's (from 0).    *)
(***************************************************************************)
startsWith(s, c) == Len(s) >= 1 /\ s[1] = c

endsWith(s, c) == Len(s) >= 1 /\ s[Len(s)] = c

indexOf(s, c) ==
    IF \E i \in 1..Len(s) : s[i] = c
    THEN (CHOOSE i \in 1..Len(s) : s[i] = c /\ \A j \in 1..(i - 1) : s[j] # c) - 1
    ELSE -1

substring(s, from, to) == SubSeq(s, from + 1, to)

RECURSIVE trimStart(_)
trimStart(s) ==
    IF s # <<>> /\ IsWhiteSpace(Head(s)) THEN trimStart(Tail(s)) ELSE s

RECURSIVE trimEnd(_)
trimEnd(s) ==
    IF s # <<>> /\ IsWhiteSpace(s[Len(s)])
    THEN trimEnd(SubSeq(s, 1, Len(s) - 1))
    ELSE s

trim(s) == trimEnd(trimStart(s))

toLowerCase(s) ==
    [i \in 1..Len(s) |->
        IF \E k \in 1..Len(Uppers) : Uppers[k] = s[i]
        THEN Lowers[CHOOSE k \in 1..Len(Uppers) : Uppers[k] = s[i]]
        ELSE s[i]]

\* the index after the longest run of digits (\d+ or \d*) that starts at i
RECURSIVE skipDigits(_, _)
skipDigits(s, i) ==
    IF i <= Len(s) /\ IsDigit(s[i]) THEN skipDigits(s, i + 1) ELSE i

\* the number a run of decimal digits writes
RECURSIVE digitsToInt(_)
digitsToInt(ds) ==
    IF ds = <<>> THEN 0
    ELSE 10 * digitsToInt(SubSeq(ds, 1, Len(ds) - 1)) + DigitValue(ds[Len(ds)])

RECURSIVE normalise(_, _)
normalise(n, k) ==
    IF k > 0 /\ n % 10 = 0 THEN normalise(n \div 10, k - 1) ELSE NumberValue(n, k)

(***************************************************************************)
(* _unescapeText: text.replace(/(\\n|\\t|\\\\)/g, s => map[s]).  A global  *)
(* replace finds the leftmost match at or after the end of the previous    *)
(* match and copies what lies between the matches.                         *)
(***************************************************************************)
reverseTextEntityMap(c) ==
    CASE c = "n" -> LF
      [] c = "t" -> TAB
      [] c = BS -> BS

\* a variant: the three replacements made one after the other
RECURSIVE replaceEach(_, _, _, _)
replaceEach(s, i, c, by) ==
    IF i > Len(s) THEN <<>>
    ELSE IF s[i] = BS /\ i + 1 <= Len(s) /\ s[i + 1] = c
         THEN <<by>> \o replaceEach(s, i + 2, c, by)
         ELSE <<s[i]>> \o replaceEach(s, i + 1, c, by)

_unescapeText_inTurn(s) ==
    replaceEach(replaceEach(replaceEach(s, 1, BS, BS), 1, "n", LF), 1, "t", TAB)

RECURSIVE unescapeFrom(_, _)
unescapeFrom(s, i) ==
    IF i > Len(s) THEN <<>>
    ELSE IF s[i] = BS /\ i + 1 <= Len(s) /\ s[i + 1] \in {"n", "t", BS}
         THEN <<reverseTextEntityMap(s[i + 1])>> \o unescapeFrom(s, i + 2)
         ELSE <<s[i]>> \o unescapeFrom(s, i + 1)

_unescapeText(s) == unescapeFrom(s, 1)

\* a variant: replace without the g flag, the first match only
replaceQuotePairs_first(s, i) ==
    IF \E k \in i..(Len(s) - 1) : s[k] = SQ /\ s[k + 1] = SQ
    THEN LET k == CHOOSE k \in i..(Len(s) - 1) :
                      /\ s[k] = SQ /\ s[k + 1] = SQ
                      /\ \A j \in i..(k - 1) : ~(s[j] = SQ /\ s[j + 1] = SQ)
         IN  SubSeq(s, i, k) \o SubSeq(s, k + 2, Len(s))
    ELSE SubSeq(s, i, Len(s))

\* text.replace(/''/g, '\'')
RECURSIVE replaceQuotePairs(_, _)
replaceQuotePairs(s, i) ==
    IF i > Len(s) THEN <<>>
    ELSE IF s[i] = SQ /\ i + 1 <= Len(s) /\ s[i + 1] = SQ
         THEN <<SQ>> \o replaceQuotePairs(s, i + 2)
         ELSE <<s[i]>> \o replaceQuotePairs(s, i + 1)

(***************************************************************************)
(* _getValue's tests and conversions.                                      *)
(***************************************************************************)
\* /^[+-]?\d+(\.\d+)?$/.test(s)
numberTest(s) ==
    LET i0 == IF Len(s) >= 1 /\ s[1] \in {"+", "-"} THEN 2 ELSE 1
        i1 == skipDigits(s, i0)
    IN  /\ i1 > i0
        /\ \/ i1 = Len(s) + 1
           \/ /\ s[i1] = "."
              /\ skipDigits(s, i1 + 1) > i1 + 1
              /\ skipDigits(s, i1 + 1) = Len(s) + 1

\* Number(s), for an s that passes numberTest
Number(s) ==
    LET neg == s[1] = "-"
        body == IF s[1] \in {"+", "-"} THEN Tail(s) ELSE s
        dot == indexOf(body, ".")
        whole == IF dot = -1 THEN body ELSE substring(body, 0, dot)
        frac == IF dot = -1 THEN <<>> ELSE substring(body, dot + 1, Len(body))
        mant == digitsToInt(whole \o frac)
    IN  normalise(IF neg THEN -mant ELSE mant, Len(frac))

\* a variant: the test without the i flag
booleanTest_caseSensitive(s) ==
    s \in {<<"t", "r", "u", "e">>, <<"f", "a", "l", "s", "e">>}

\* /^(true|false)$/i.test(s)
booleanTest(s) ==
    toLowerCase(s) \in {<<"t", "r", "u", "e">>, <<"f", "a", "l", "s", "e">>}

\* /^\d{4}-\d{2}-\d{2}$/.test(s)
dateTest(s) ==
    /\ Len(s) = 10
    /\ \A i \in {1, 2, 3, 4, 6, 7, 9, 10} : IsDigit(s[i])
    /\ s[5] = "-"
    /\ s[8] = "-"

\* new Date(s), for an s that passes dateTest: the calendar date it writes
newDate(s) ==
    DateValue(digitsToInt(SubSeq(s, 1, 4)), digitsToInt(SubSeq(s, 6, 7)),
              digitsToInt(SubSeq(s, 9, 10)))

_getValue(s) ==
    IF startsWith(s, DQ) /\ Len(s) > 2 /\ endsWith(s, DQ)
    THEN StringValue(_unescapeText(substring(s, 1, Len(s) - 1)))
    ELSE IF startsWith(s, SQ) /\ Len(s) > 2 /\ endsWith(s, SQ)
    THEN StringValue(replaceQuotePairs(substring(s, 1, Len(s) - 1), 1))
    ELSE IF numberTest(s) THEN Number(s)
    ELSE IF booleanTest(s)
    THEN BooleanValue(toLowerCase(s) = <<"t", "r", "u", "e">>)
    ELSE IF dateTest(s) THEN newDate(s)
    ELSE IF s = <<"n", "u", "l", "l">> THEN NullValue
    ELSE StringValue(s)

(***************************************************************************)
(* js-yaml: load(input), for an input that starts with "{".  The loader    *)
(* appends a line break and a NUL to the input and reads one document,     *)
(* whose root node is the flow mapping.  A read returns where it stopped   *)
(* and the node it built, or that it threw (throwError).  The lexemes hold *)
(* no line break, brace, tag, anchor, alias, comment or double quote, so   *)
(* the whole text lies on the first line inside the outer braces, and the  *)
(* loader's steps for those (line folding, properties, aliases, the        *)
(* double-quoted scalar) are never run below.                              *)
(***************************************************************************)
NUL == "NUL"
CR == "\r"

charCodeAt(inp, p) == IF p >= 1 /\ p <= Len(inp) THEN inp[p] ELSE NUL

is_EOL(c) == c \in {LF, CR}

is_WHITE_SPACE(c) == c \in {" ", TAB}

is_WS_OR_EOL(c) == is_WHITE_SPACE(c) \/ is_EOL(c)

is_FLOW_INDICATOR(c) == c \in {",", "[", "]", "{", "}"}

Threw == [threw |-> TRUE, pos |-> 0, val |-> NullValue]

Node(p, v) == [threw |-> FALSE, pos |-> p, val |-> v]

\* the end of the line a comment starts on
RECURSIVE lineEnd(_, _)
lineEnd(inp, p) ==
    IF charCodeAt(inp, p) \in {LF, CR, NUL} THEN p ELSE lineEnd(inp, p + 1)

\* the position after white space, comments and line breaks
RECURSIVE skipSeparationSpace(_, _)
skipSeparationSpace(inp, p) ==
    IF is_WS_OR_EOL(charCodeAt(inp, p)) THEN skipSeparationSpace(inp, p + 1)
    ELSE IF charCodeAt(inp, p) = "#" THEN skipSeparationSpace(inp, lineEnd(inp, p + 1))
    ELSE p

\* readPlainScalar's loop within a flow collection: <<where it stops, captureEnd>>
RECURSIVE plainScan(_, _, _)
plainScan(inp, p, captureEnd) ==
    LET ch == charCodeAt(inp, p)
        following == charCodeAt(inp, p + 1)
        preceding == charCodeAt(inp, p - 1)
    IN  IF ch = NUL THEN <<p, captureEnd>>
        ELSE IF ch = ":" /\ (is_WS_OR_EOL(following) \/ is_FLOW_INDICATOR(following))
        THEN <<p, captureEnd>>
        ELSE IF ch = "#" /\ is_WS_OR_EOL(preceding) THEN <<p, captureEnd>>
        ELSE IF is_FLOW_INDICATOR(ch) \/ is_EOL(ch) THEN <<p, captureEnd>>
        ELSE plainScan(inp, p + 1, IF is_WHITE_SPACE(ch) THEN captureEnd ELSE p + 1)

\* what readPlainScalar leaves once its loop has stopped: [found, pos, chars]
captureSegment(inp, p, scan) ==
    IF scan[2] = p THEN [found |-> FALSE, pos |-> scan[1], chars |-> <<>>]
    ELSE [found |-> TRUE, pos |-> scan[1], chars |-> SubSeq(inp, p, scan[2] - 1)]

\* [found, pos, chars]: found is readPlainScalar's return value (the grave
\* accent, which cannot start a plain scalar either, is no character here)
readPlainScalar(inp, p) ==
    LET ch == charCodeAt(inp, p)
        following == charCodeAt(inp, p + 1)
        none == [found |-> FALSE, pos |-> p, chars |-> <<>>]
    IN  IF \/ is_WS_OR_EOL(ch)
           \/ is_FLOW_INDICATOR(ch)
           \/ ch \in {"#", "&", "*", "!", "|", ">", SQ, DQ, "%", "@"}
        THEN none
        ELSE IF /\ ch \in {"?", "-"}
                /\ (is_WS_OR_EOL(following) \/ is_FLOW_INDICATOR(following))
        THEN none
        ELSE captureSegment(inp, p, plainScan(inp, p, p))

\* readSingleQuotedScalar, from the character after the opening quote:
\* [threw, pos, chars]; a line break inside the scalar is folded away
RECURSIVE singleQuotedScan(_, _, _)
singleQuotedScan(inp, p, acc) ==
    LET ch == charCodeAt(inp, p)
    IN  IF ch = NUL THEN [threw |-> TRUE, pos |-> p, chars |-> acc]
        ELSE IF ch = SQ
        THEN IF charCodeAt(inp, p + 1) = SQ
             THEN singleQuotedScan(inp, p + 2, Append(acc, SQ))
             ELSE [threw |-> FALSE, pos |-> p + 1, chars |-> acc]
        ELSE IF is_EOL(ch) THEN singleQuotedScan(inp, skipSeparationSpace(inp, p), acc)
        ELSE singleQuotedScan(inp, p + 1, Append(acc, ch))

(***************************************************************************)
(* The implicit types of js-yaml's default schema, in their order: null,   *)
(* bool, int, float, timestamp, merge.  A float that is no int needs one   *)
(* of . e E, a timestamp needs -, a merge key is <<, and an int in another *)
(* base needs one of x o b after a 0: only the decimal int is written out. *)
(***************************************************************************)
resolveYamlNull(s) ==
    s \in {<<"~">>, <<"n", "u", "l", "l">>, <<"N", "u", "l", "l">>,
           <<"N", "U", "L", "L">>}

resolveYamlBoolean(s) ==
    s \in {<<"t", "r", "u", "e">>, <<"T", "r", "u", "e">>, <<"T", "R", "U", "E">>,
           <<"f", "a", "l", "s", "e">>, <<"F", "a", "l", "s", "e">>,
           <<"F", "A", "L", "S", "E">>}

resolveYamlInteger(s) ==
    LET i0 == IF Len(s) >= 1 /\ s[1] \in {"+", "-"} THEN 2 ELSE 1
    IN  /\ Len(s) >= i0
        /\ skipDigits(s, i0) = Len(s) + 1

constructYamlInteger(s) ==
    LET body == IF s[1] \in {"+", "-"} THEN Tail(s) ELSE s
    IN  NumberValue(IF s[1] = "-" THEN -digitsToInt(body) ELSE digitsToInt(body), 0)

\* composeNode's loop over state.implicitTypes for a plain scalar
resolveImplicit(s) ==
    IF resolveYamlNull(s) THEN NullValue
    ELSE IF resolveYamlBoolean(s) THEN BooleanValue(toLowerCase(s) = <<"t", "r", "u", "e">>)
    ELSE IF resolveYamlInteger(s) THEN constructYamlInteger(s)
    ELSE StringValue(s)

(***************************************************************************)
(* storeMappingPair: the key becomes a string, a key the mapping already   *)
(* has throws 'duplicated mapping key'.                                    *)
(***************************************************************************)
RECURSIVE intToChars(_)
intToChars(n) ==
    IF n < 0 THEN <<"-">> \o intToChars(-n)
    ELSE IF n < 10 THEN <<Digits[n + 1]>>
    ELSE intToChars(n \div 10) \o <<Digits[(n % 10) + 1]>>

objectObject == <<"[", "o", "b", "j", "e", "c", "t", " ", "O", "b", "j", "e", "c", "t", "]">>

\* String(v) for a scalar node or an Object; a number in a key is a decimal int
scalarToString(v) ==
    CASE v.tag = "String" -> v.chars
      [] v.tag = "Number" -> intToChars(v.num)
      [] v.tag = "Boolean" -> IF v.bool THEN <<"t", "r", "u", "e">>
                              ELSE <<"f", "a", "l", "s", "e">>
      [] v.tag = "Null" -> <<"n", "u", "l", "l">>
      [] OTHER -> objectObject

\* Array.prototype.join(','): null joins as the empty string
RECURSIVE joinItems(_)
joinItems(xs) ==
    IF xs = <<>> THEN <<>>
    ELSE LET one == IF Head(xs).tag = "Null" THEN <<>> ELSE scalarToString(Head(xs))
         IN  IF Len(xs) = 1 THEN one ELSE one \o <<",">> \o joinItems(Tail(xs))

hasOwnProperty(es, k) == \E i \in 1..Len(es) : es[i][1] = k

keyToString(keyNode) ==
    IF keyNode.tag = "Array" THEN joinItems(keyNode.items) ELSE scalarToString(keyNode)

\* [threw, entries]
storeMappingPair(es, keyNode, valueNode) ==
    IF keyNode.tag = "Array" /\ \E i \in 1..Len(keyNode.items) : keyNode.items[i].tag = "Array"
    THEN [threw |-> TRUE, entries |-> es]
    ELSE IF hasOwnProperty(es, keyToString(keyNode)) THEN [threw |-> TRUE, entries |-> es]
    ELSE [threw |-> FALSE, entries |-> Append(es, <<keyToString(keyNode), valueNode>>)]

(***************************************************************************)
(* composeNode in the flow context, and readFlowCollection, whose while    *)
(* loop is flowEntries; one turn of the loop is flowEntry (the terminator  *)
(* and the comma checks), flowKey and flowValue (the two composeNode       *)
(* calls), flowStore (storeMappingPair or push) and flowNext (the comma    *)
(* that follows).  Each returns the loop's outcome: [threw, pos, acc].     *)
(***************************************************************************)
RECURSIVE composeNode(_, _)
RECURSIVE flowEntries(_, _, _, _, _)

FlowThrew == [threw |-> TRUE, pos |-> 0, acc |-> <<>>]

flowNext(inp, p, isMapping, acc) ==
    flowEntries(inp, IF charCodeAt(inp, p) = "," THEN p + 1 ELSE p, isMapping,
                charCodeAt(inp, p) = ",", acc)

flowStore(inp, p, isMapping, isPair, stored, keyNode, acc) ==
    IF isMapping
    THEN IF stored.threw THEN FlowThrew ELSE flowNext(inp, p, isMapping, stored.entries)
    ELSE IF isPair
    THEN IF stored.threw THEN FlowThrew
         ELSE flowNext(inp, p, isMapping, Append(acc, ObjectValue(stored.entries)))
    ELSE flowNext(inp, p, isMapping, Append(acc, keyNode))

flowValue(inp, keyNode, value, isMapping, isPair, acc) ==
    IF value.threw THEN FlowThrew
    ELSE flowStore(inp, skipSeparationSpace(inp, value.pos), isMapping, isPair,
                   storeMappingPair(IF isMapping THEN acc ELSE <<>>, keyNode, value.val),
                   keyNode, acc)

\* p: where the key's node and the separation space after it end
flowColon(inp, keyNode, p, isMapping, isExplicitPair, acc) ==
    flowValue(inp, keyNode,
              IF charCodeAt(inp, p) = ":"
              THEN composeNode(inp, skipSeparationSpace(inp, p + 1))
              ELSE Node(p, NullValue),
              isMapping, isExplicitPair \/ charCodeAt(inp, p) = ":", acc)

flowKey(inp, key, isMapping, isExplicitPair, acc) ==
    IF key.threw THEN FlowThrew
    ELSE flowColon(inp, key.val, skipSeparationSpace(inp, key.pos), isMapping,
                   isExplicitPair, acc)

\* p: after the separation space that starts a turn of the loop
flowEntry(inp, p, isMapping, readNext, acc) ==
    LET ch == charCodeAt(inp, p)
        isExplicitPair == ch = "?" /\ is_WS_OR_EOL(charCodeAt(inp, p + 1))
    IN  IF ch = (IF isMapping THEN "}" ELSE "]")
        THEN [threw |-> FALSE, pos |-> p + 1, acc |-> acc]
        ELSE IF ~readNext THEN FlowThrew
        ELSE IF ch = "," THEN FlowThrew
        ELSE flowKey(inp,
                     composeNode(inp, IF isExplicitPair
                                      THEN skipSeparationSpace(inp, p + 1) ELSE p),
                     isMapping, isExplicitPair, acc)

flowEntries(inp, p, isMapping, readNext, acc) ==
    IF charCodeAt(inp, p) = NUL THEN FlowThrew
    ELSE flowEntry(inp, skipSeparationSpace(inp, p), isMapping, readNext, acc)

flowNode(isMapping, read) ==
    IF read.threw THEN Threw
    ELSE Node(read.pos, IF isMapping THEN ObjectValue(read.acc) ELSE ArrayValue(read.acc))

\* readFlowCollection at p, where inp[p] is [ or {
readFlowCollection(inp, p) ==
    flowNode(inp[p] = "{", flowEntries(inp, p + 1, inp[p] = "{", TRUE, <<>>))

quotedNode(quoted) ==
    IF quoted.threw THEN Threw ELSE Node(quoted.pos, StringValue(quoted.chars))

plainNode(plain) ==
    IF plain.found THEN Node(plain.pos, resolveImplicit(plain.chars))
    ELSE Node(plain.pos, NullValue)

composeNode(inp, p) ==
    IF charCodeAt(inp, p) \in {"[", "{"} THEN readFlowCollection(inp, p)
    ELSE IF charCodeAt(inp, p) = SQ THEN quotedNode(singleQuotedScan(inp, p + 1, <<>>))
    ELSE plainNode(readPlainScalar(inp, p))

\* readDocument and load, given the root node: [threw, value]
loadDocument(inp, root) ==
    IF root.threw THEN [threw |-> TRUE, value |-> NullValue]
    ELSE IF charCodeAt(inp, skipSeparationSpace(inp, root.pos)) # NUL
    THEN [threw |-> TRUE, value |-> NullValue]
    ELSE [threw |-> FALSE, value |-> root.val]

jsyaml_load(input) ==
    loadDocument(input \o <<LF, NUL>>, readFlowCollection(input \o <<LF, NUL>>, 1))

(***************************************************************************)
(* parser.  A call returns a value or throws.                              *)
(***************************************************************************)
Undefined == [kind |-> "undefined", chars |-> <<>>]

Null == [kind |-> "null", chars |-> <<>>]

StringArg(s) == [kind |-> "string", chars |-> s]

\* via: the return statement the call left through
NotCalled == [status |-> "none", value |-> NullValue, via |-> "none"]

Returned(v, via) == [status |-> "returned", value |-> v, via |-> via]

Raised == [status |-> "threw", value |-> NullValue, via |-> "none"]

DefaultKey == <<"_">>

\* a variant: the load outside any try, its exception reaching the caller
tryLoad_uncaught(loaded) ==
    IF loaded.threw THEN Raised ELSE Returned(loaded.value, "list")

\* try { dataObject = jsyaml.load(...) } catch (err) { dataObject = {} }
\* return dataObject
tryLoad(loaded) ==
    IF loaded.threw THEN Returned(ObjectValue(<<>>), "list")
    ELSE Returned(loaded.value, "list")

\* a variant: the colon scan before the quote-prefix test
parseTrimmed_colonFirst(s) ==
    IF s = <<>> THEN Returned(ObjectValue(<<>>), "empty")
    ELSE IF indexOf(s, ":") = -1
    THEN Returned(ObjectValue(<< <<DefaultKey, _getValue(s)>> >>), "default")
    ELSE tryLoad(jsyaml_load(<<"{">> \o s \o <<"}">>))

\* the part of parser that follows the trim
parseTrimmed(s) ==
    IF s = <<>> THEN Returned(ObjectValue(<<>>), "empty")
    ELSE IF startsWith(s, DQ) \/ startsWith(s, SQ) \/ indexOf(s, ":") = -1
    THEN Returned(ObjectValue(<< <<DefaultKey, _getValue(s)>> >>), "default")
    ELSE tryLoad(jsyaml_load(<<"{">> \o s \o <<"}">>))

\* a variant: no trim
parser_untrimmed(keyValueString) ==
    IF keyValueString.kind \in {"undefined", "null"}
    THEN Returned(ObjectValue(<<>>), "absent")
    ELSE parseTrimmed(keyValueString.chars)

parser(keyValueString) ==
    IF keyValueString.kind \in {"undefined", "null"}
    THEN Returned(ObjectValue(<<>>), "absent")
    ELSE parseTrimmed(trim(keyValueString.chars))

(***************************************************************************)
(* The caller.                                                             *)
(***************************************************************************)
Lexemes ==
    {<<"a", ":", " ">>, <<"a", ":">>, <<"1">>, <<"2">>, <<",">>, <<" ">>,
     <<SQ>>, <<"[">>, <<"]">>, <<"t", "R", "u", "E">>}

QuoteLexemes == {<<DQ>>, <<SQ>>, <<BS>>, <<"n">>, <<"t">>, <<" ">>}

LadderLexemes ==
    {<<"1">>, <<"0">>, <<".">>, <<"-">>, <<"+">>, <<DQ>>, <<SQ>>,
     <<"t", "R", "u", "E">>, <<"f", "a", "l", "s", "e">>,
     <<"n", "u", "l", "l">>, <<"N", "U", "L", "L">>,
     <<"2", "0", "2", "1", "-", "0", "6", "-", "0", "1">>,
     <<"2", "0", "2", "1", "-", "6", "-", "1">>}

Start(lexemes, n) ==
    /\ alphabet = lexemes
    /\ limit = n
    /\ text = <<>>
    /\ typed = 0
    /\ pc = "typing"
    /\ argument = Undefined
    /\ result = NotCalled

Init == Start(Lexemes, MaxLexemes)

InitQuote == Start(QuoteLexemes, MaxQuoteLexemes)

InitLadder == Start(LadderLexemes, MaxLadderLexemes)

Type(l) ==
    /\ pc = "typing"
    /\ typed < limit
    /\ text' = text \o l
    /\ typed' = typed + 1
    /\ UNCHANGED <<alphabet, limit, pc, argument, result>>

Call(arg) ==
    /\ pc = "typing"
    /\ arg.kind = "string" => arg.chars = text
    /\ arg.kind # "string" => text = <<>>
    /\ argument' = arg
    /\ result' = parser(arg)
    /\ pc' = "returned"
    /\ UNCHANGED <<alphabet, limit, text, typed>>

Next ==
    \/ \E l \in alphabet : Type(l)
    \/ \E arg \in {Undefined, Null, StringArg(text)} : Call(arg)

Spec == Init /\ [][Next]_vars

SpecQuote == InitQuote /\ [][Next]_vars

SpecLadder == InitLadder /\ [][Next]_vars

(***************************************************************************)
(* The claims.  Each is about one call: the argument and what came back.   *)
(***************************************************************************)
Called == pc = "returned" /\ argument.kind = "string"

trimmed == trim(argument.chars)

startsWithQuote(s) == startsWith(s, SQ) \/ startsWith(s, DQ)

\* the mapping {_: v}
DefaultKeyMapping(v) == ObjectValue(<< <<DefaultKey, v>> >>)

\* C1, as stated: for every text T with no colon that does not start with a
\* quote character, parser(T) is the one-entry mapping {_: _getValue(T)}.
C1_AnyText ==
    (Called /\ indexOf(argument.chars, ":") = -1 /\ ~startsWithQuote(argument.chars))
        => /\ result.status = "returned"
           /\ result.value = DefaultKeyMapping(_getValue(argument.chars))

\* C1, amended: for every text T whose trimmed text is not empty, has no colon
\* and does not start with a quote character, parser(T) is the one-entry
\* mapping {_: _getValue(trimmed text)}.
C1_TrimmedText ==
    (Called /\ trimmed # <<>> /\ indexOf(trimmed, ":") = -1 /\ ~startsWithQuote(trimmed))
        => /\ result.status = "returned"
           /\ result.value = DefaultKeyMapping(_getValue(trimmed))

\* a text with white space around a number was parsed
C1_Witness ==
    /\ Called
    /\ trimmed # argument.chars
    /\ indexOf(trimmed, ":") = -1
    /\ ~startsWithQuote(trimmed)
    /\ result.value = DefaultKeyMapping(_getValue(trimmed))
    /\ _getValue(trimmed).tag = "Number"
    /\ _getValue(argument.chars).tag = "String"

\* C2: when the trimmed text starts with ' or ", parser returns exactly
\* {_: _getValue(trimmed text)} through the default-key return and never
\* through the key-value-list path, whatever colons and commas the text holds.
C2_QuoteBeforeColon ==
    (Called /\ startsWithQuote(trimmed))
        => /\ result.status = "returned"
           /\ result.via = "default"
           /\ result.value = DefaultKeyMapping(_getValue(trimmed))

\* a quoted sole value that holds a colon was parsed
C2_Witness ==
    /\ Called
    /\ startsWith(trimmed, SQ)
    /\ endsWith(trimmed, SQ)
    /\ indexOf(trimmed, ":") # -1
    /\ result.via = "default"
    /\ result.value.entries[1][2].tag = "String"
    /\ indexOf(result.value.entries[1][2].chars, ":") # -1

\* C3: parser never raises: every call returns a mapping; the mapping is empty
\* when the argument is undefined, null or empty after trimming, and is empty
\* whenever jsyaml.load throws on the key-value-list text.
C3_NeverRaises ==
    pc = "returned"
        => /\ result.status = "returned"
           /\ result.value.tag = "Object"
           /\ (argument.kind # "string" \/ trimmed = <<>>) => result.value.entries = <<>>
           /\ (result.via = "list" /\ jsyaml_load(<<"{">> \o trimmed \o <<"}">>).threw)
                  => result.value.entries = <<>>

\* a key-value-list text with an unbalanced quote was parsed
C3_Witness ==
    /\ Called
    /\ result.via = "list"
    /\ Len(SelectSeq(trimmed, LAMBDA c : c = SQ)) = 1
    /\ jsyaml_load(<<"{">> \o trimmed \o <<"}">>).threw
    /\ result = Returned(ObjectValue(<<>>), "list")

(***************************************************************************)
(* Key-value-list texts written the way the documentation writes them:     *)
(* keys and bare value tokens made of letters and digits.                  *)
(***************************************************************************)
Keys == {<<"a">>, <<"1", "a">>}

BareTokens == {<<"1">>, <<"2">>, <<"1", "2">>, <<"t", "R", "u", "E">>}

QuotedTokens == {<<SQ, SQ>>, <<SQ, "1", SQ>>, <<SQ, "1", SQ, SQ, "2", SQ>>}

\* the value the mapping m holds under key k, when it holds exactly one
hasEntry(m, k, v) ==
    /\ m.tag = "Object"
    /\ Len(SelectSeq(m.entries, LAMBDA e : e[1] = k)) = 1
    /\ \E i \in 1..Len(m.entries) : m.entries[i] = <<k, v>>

\* C4: the value stored under k by parser(k + ': ' + t) is _getValue(t), the
\* value parser(t) stores under _ when t is a default-key-shape text.
C4_SameCoercion ==
    \A k \in Keys : \A t \in BareTokens \cup QuotedTokens :
        (Called /\ trimmed = k \o <<":", " ">> \o t)
            => hasEntry(result.value, k, _getValue(t))

\* a: tRuE was parsed: the mapping holds the string, _getValue makes a Boolean
C4_Witness ==
    /\ Called
    /\ trimmed = <<"a", ":", " ", "t", "R", "u", "E">>
    /\ result.value = ObjectValue(<< <<(<<"a">>), StringValue(<<"t", "R", "u", "E">>)>> >>)
    /\ _getValue(<<"t", "R", "u", "E">>) = BooleanValue(TRUE)

\* C5: when a key-value list names the same key twice, the returned mapping
\* has exactly one entry for that key, holding the last occurrence's value.
C5_LastWins ==
    \A k \in Keys : \A t1 \in BareTokens : \A t2 \in BareTokens :
        (Called /\ trimmed \in {k \o <<":", " ">> \o t1 \o <<",">> \o k \o <<":", " ">> \o t2,
                                k \o <<":", " ">> \o t1 \o <<",", " ">> \o k \o <<":", " ">> \o t2})
            => hasEntry(result.value, k, _getValue(t2))

\* a: 1,a: 2 was parsed: the load threw on the second a, the mapping is empty
C5_Witness ==
    /\ Called
    /\ trimmed = <<"a", ":", " ", "1", ",", "a", ":", " ", "2">>
    /\ jsyaml_load(<<"{">> \o trimmed \o <<"}">>).threw
    /\ result = Returned(ObjectValue(<<>>), "list")

IsPrimitive(v) == v.tag \in {"String", "Number", "Boolean", "Null", "Date"}

\* C6: every value of the mapping parser returns is a String, a Number, a
\* Boolean, Null or a Date, never an array or a nested mapping.
C6_FlatValues ==
    pc = "returned"
        => \A i \in 1..Len(result.value.entries) : IsPrimitive(result.value.entries[i][2])

\* a: [] was parsed: the mapping holds an array
C6_Witness ==
    /\ Called
    /\ trimmed = <<"a", ":", " ", "[", "]">>
    /\ result.value = ObjectValue(<< <<(<<"a">>), ArrayValue(<<>>)>> >>)

\* C7: a top-level colon separates a key from its value whether or not white
\* space follows it: parser(k + ':' + v) is {k: _getValue(v)}, and
\* parser(k1 + ':' + v1 + ', ' + k2 + ':' + v2) holds both entries.
C7_ColonWithoutSpace ==
    \A k \in Keys : \A t \in BareTokens :
        /\ (Called /\ trimmed = k \o <<":">> \o t)
               => result.value = ObjectValue(<< <<k, _getValue(t)>> >>)
        /\ \A k2 \in Keys \ {k} : \A t2 \in BareTokens :
               (Called /\ trimmed = k \o <<":">> \o t \o <<",", " ">> \o k2 \o <<":">> \o t2)
                   => result.value = ObjectValue(<< <<k, _getValue(t)>>, <<k2, _getValue(t2)>> >>)

\* a:1 was parsed: the whole text is one key, its value null
C7_Witness ==
    /\ Called
    /\ trimmed = <<"a", ":", "1">>
    /\ result.value = ObjectValue(<< <<(<<"a", ":", "1">>), NullValue>> >>)

(***************************************************************************)
(* What the quoting rules say, as readers that take one character at a     *)
(* time and hold back a backslash (a quote) until the next character shows *)
(* whether the two form an escape.                                         *)
(***************************************************************************)
RECURSIVE readEscapes(_, _, _)
readEscapes(s, i, held) ==
    IF i > Len(s) THEN (IF held THEN <<BS>> ELSE <<>>)
    ELSE IF ~held
    THEN IF s[i] = BS THEN readEscapes(s, i + 1, TRUE)
         ELSE <<s[i]>> \o readEscapes(s, i + 1, FALSE)
    ELSE CASE s[i] = "n" -> <<LF>> \o readEscapes(s, i + 1, FALSE)
           [] s[i] = "t" -> <<TAB>> \o readEscapes(s, i + 1, FALSE)
           [] s[i] = BS -> <<BS>> \o readEscapes(s, i + 1, FALSE)
           [] OTHER -> <<BS, s[i]>> \o readEscapes(s, i + 1, FALSE)

RECURSIVE readQuotes(_, _, _)
readQuotes(s, i, held) ==
    IF i > Len(s) THEN (IF held THEN <<SQ>> ELSE <<>>)
    ELSE IF ~held
    THEN IF s[i] = SQ THEN readQuotes(s, i + 1, TRUE)
         ELSE <<s[i]>> \o readQuotes(s, i + 1, FALSE)
    ELSE IF s[i] = SQ THEN <<SQ>> \o readQuotes(s, i + 1, FALSE)
    ELSE <<SQ, s[i]>> \o readQuotes(s, i + 1, FALSE)

IsQuotedBy(t, q) == Len(t) > 2 /\ t[1] = q /\ t[Len(t)] = q

body(t) == SubSeq(t, 2, Len(t) - 1)

\* C8: for a token in double quotes of length > 2, the value is the text
\* between the quotes with backslash-n, backslash-t and backslash-backslash
\* replaced in one pass from the left by newline, tab and backslash; what a
\* replacement wrote is not read again, and nothing else changes.
C8_DoubleQuoted ==
    (Called /\ IsQuotedBy(trimmed, DQ))
        => result.value = DefaultKeyMapping(StringValue(readEscapes(body(trimmed), 1, FALSE)))

\* backslash-backslash-n in double quotes was parsed and gave a backslash and n
C8_Witness ==
    /\ Called
    /\ trimmed = <<DQ, BS, BS, "n", DQ>>
    /\ result.value = DefaultKeyMapping(StringValue(<<BS, "n">>))

\* C9: for a token in single quotes of length > 2, the value is the text
\* between the quotes with every two consecutive single quotes, taken from the
\* left without overlap, replaced by one; backslashes and all other characters
\* pass through.
C9_SingleQuoted ==
    (Called /\ IsQuotedBy(trimmed, SQ))
        => result.value = DefaultKeyMapping(StringValue(readQuotes(body(trimmed), 1, FALSE)))

\* a doubled quote and a backslash-n in single quotes were parsed: the doubled
\* quote became one, backslash-n stayed
C9_Witness ==
    /\ Called
    /\ trimmed = <<SQ, SQ, SQ, BS, "n", SQ>>
    /\ result.value = DefaultKeyMapping(StringValue(<<SQ, BS, "n">>))

(***************************************************************************)
(* The ladder of the value coercer, rule by rule.                          *)
(***************************************************************************)
unsigned(t) == IF t # <<>> /\ t[1] \in {"+", "-"} THEN Tail(t) ELSE t

\* an optional sign, digits, and at most one point, with digits on both sides
IsNumberToken(t) ==
    LET u == unsigned(t)
    IN  /\ u # <<>>
        /\ \A i \in 1..Len(u) : IsDigit(u[i]) \/ u[i] = "."
        /\ Cardinality({i \in 1..Len(u) : u[i] = "."}) <= 1
        /\ u[1] # "."
        /\ u[Len(u)] # "."

RECURSIVE Pow10(_)
Pow10(k) == IF k = 0 THEN 1 ELSE 10 * Pow10(k - 1)

\* v is the number the token t writes
IsNumberOf(v, t) ==
    LET u == unsigned(t)
        point == IF \E i \in 1..Len(u) : u[i] = "."
                 THEN CHOOSE i \in 1..Len(u) : u[i] = "." ELSE Len(u)
        digits == digitsToInt(SelectSeq(u, IsDigit))
    IN  /\ v.tag = "Number"
        /\ v.num * Pow10(Len(u) - point) =
               (IF t[1] = "-" THEN -digits ELSE digits) * Pow10(v.scale)

\* t is the word, each letter in either case
IsWord(t, lower, upper) ==
    /\ Len(t) = Len(lower)
    /\ \A i \in 1..Len(t) : t[i] \in {lower[i], upper[i]}

IsTrue(t) == IsWord(t, <<"t", "r", "u", "e">>, <<"T", "R", "U", "E">>)

IsFalse(t) == IsWord(t, <<"f", "a", "l", "s", "e">>, <<"F", "A", "L", "S", "E">>)

IsDateToken(t) ==
    /\ Len(t) = 10
    /\ \A i \in 1..10 : IF i \in {5, 8} THEN t[i] = "-" ELSE IsDigit(t[i])

IsDateOf(v, t) ==
    /\ v.tag = "Date"
    /\ v.ymd = <<1000 * DigitValue(t[1]) + 100 * DigitValue(t[2])
                    + 10 * DigitValue(t[3]) + DigitValue(t[4]),
                 10 * DigitValue(t[6]) + DigitValue(t[7]),
                 10 * DigitValue(t[9]) + DigitValue(t[10])>>

\* v is what the first rule that matches t makes of t
Coerced(v, t) ==
    IF IsQuotedBy(t, DQ) THEN v = StringValue(readEscapes(body(t), 1, FALSE))
    ELSE IF IsQuotedBy(t, SQ) THEN v = StringValue(readQuotes(body(t), 1, FALSE))
    ELSE IF IsNumberToken(t) THEN IsNumberOf(v, t)
    ELSE IF IsTrue(t) \/ IsFalse(t) THEN v = BooleanValue(IsTrue(t))
    ELSE IF IsDateToken(t) THEN IsDateOf(v, t)
    ELSE IF t = <<"n", "u", "l", "l">> THEN v = NullValue
    ELSE v = StringValue(t)

\* C10: _getValue is total and the first rule that matches decides: quoted
\* string, Number, Boolean in any case, Date yyyy-MM-dd, null, and otherwise
\* the token itself as a string; the quoted-empty tokens "" and '' come back
\* as the two-character strings they are.
C10_Ladder ==
    (Called /\ trimmed # <<>> /\ (startsWithQuote(trimmed) \/ indexOf(trimmed, ":") = -1))
        => /\ result.status = "returned"
           /\ Len(result.value.entries) = 1
           /\ result.value.entries[1][1] = DefaultKey
           /\ Coerced(result.value.entries[1][2], trimmed)
           /\ trimmed \in {<<DQ, DQ>>, <<SQ, SQ>>}
                  => result.value.entries[1][2] = StringValue(trimmed)

\* the quoted-empty token in double quotes was parsed and came back with its quotes
C10_Witness ==
    /\ Called
    /\ trimmed = <<DQ, DQ>>
    /\ result.value = DefaultKeyMapping(StringValue(<<DQ, DQ>>))

====
